---- MODULE Spec2Model ----
(***************************************************************************)
(* Model of script.py: read mailboxes.csv, fetch the mailbox settings of   *)
(* every data row concurrently through asyncio.gather, and write the       *)
(* records that came back to audit_settings.csv.                           *)
(*                                                                         *)
(* Python values are tagged records, one field name per Python type:       *)
(*   [none |-> TRUE]   None          [bool |-> b]   True / False           *)
(*   [str |-> s]       a str         [list |-> q]   a list of str          *)
(*   [dict |-> f]      a dict, f a function from its keys to values        *)
(* The result of evaluating code that may raise is [ret |-> v] or          *)
(* [raise |-> e], e the name of the exception class.                       *)
(***************************************************************************)
EXTENDS Integers, Sequences, FiniteSets, TLC

\* Largest number of data rows of the input file.
MaxRows == 2

\* The program runs modelled side by side (the second is used to compare two
\* executions on the same input).
Runs == {1, 2}

-----------------------------------------------------------------------------
(* Python values                                                           *)

PyNone == [none |-> TRUE]

PyBool(b) == [bool |-> b]

PyStrVal(s) == [str |-> s]

PyList(q) == [list |-> q]

PyDict(f) == [dict |-> f]

IsNone(v) == "none" \in DOMAIN v

Return(v) == [ret |-> v]

Raise(e) == [raise |-> e]

Raised(x) == "raise" \in DOMAIN x

\* repr() of a str (no quote characters inside the modelled strings).
PyRepr(s) == "'" \o s \o "'"

RECURSIVE JoinRepr(_)
\* ", ".join(repr(x) for x in q)
JoinRepr(q) ==
    IF q = << >> THEN ""
    ELSE IF Len(q) = 1 THEN PyRepr(q[1])
    ELSE PyRepr(q[1]) \o ", " \o JoinRepr(Tail(q))

\* str(v), as the f-string at line 25 and csv's writer apply it.
PyStr(v) ==
    IF "str" \in DOMAIN v THEN v.str
    ELSE IF "bool" \in DOMAIN v THEN (IF v.bool THEN "True" ELSE "False")
    ELSE IF "list" \in DOMAIN v THEN "[" \o JoinRepr(v.list) \o "]"
    ELSE "None"

\* Truth value of a Python value, as `if result` at line 52 tests it.
Truthy(v) ==
    IF "none" \in DOMAIN v THEN FALSE
    ELSE IF "bool" \in DOMAIN v THEN v.bool
    ELSE IF "str" \in DOMAIN v THEN v.str # ""
    ELSE IF "list" \in DOMAIN v THEN v.list # << >>
    ELSE DOMAIN v.dict # {}

\* dict.get(key): the value, or None when the key is missing.
DictGet(d, key) == IF key \in DOMAIN d THEN d[key] ELSE PyNone

-----------------------------------------------------------------------------
(* The remote service: what `await client.get(url)` produces for one       *)
(* request.  Either an exception raised out of the await, or a response    *)
(* object with a status and a body; the body is JSON text of some value or *)
(* text that is no JSON.                                                   *)

NetworkError == [exc |-> "ConnectionError"]

AuthFailure == [exc |-> "ClientAuthenticationError"]

\* A client that turns a 404 into an exception.
NotFoundRaised == [exc |-> "HTTPError 404"]

Response(status, body) == [status |-> status, body |-> body]

JsonBody(v) == [json |-> v]

NotJsonBody == [text |-> "<html>Bad Gateway</html>"]

FullSettings ==
    PyDict("auditEnabled" :> PyBool(TRUE) @@ "auditLogAgeLimit" :> PyStrVal("90"))

DisabledSettings == PyDict("auditEnabled" :> PyBool(FALSE))

EmptySettings == PyDict(<< >>)

ErrorObject == PyDict("error" :> PyStrVal("ResourceNotFound"))

\* The outcomes of one request.  A non-2xx answer reaches the code as an exception
\* when the client raises for the status, and as an ordinary response object when it
\* does not (the code asks the client for neither).
Outcomes ==
    { NetworkError, AuthFailure, NotFoundRaised,
      Response(200, JsonBody(FullSettings)),
      Response(200, JsonBody(DisabledSettings)),
      Response(200, JsonBody(EmptySettings)),
      Response(200, JsonBody(PyList(<< >>))),
      Response(200, NotJsonBody),
      Response(404, JsonBody(ErrorObject)) }

\* The rows csv.reader can yield for a line of the input file.
Rows == { <<"alice@x.com">>, <<"bob@x.com">>, <<"alice@x.com", "Sales">> }

HeaderRows == { <<"Mailbox">> }

\* Input files: a header row followed by at most MaxRows data rows.
InputFiles ==
    UNION { { <<h>> \o d : h \in HeaderRows, d \in [1..n -> Rows] } : n \in 0..MaxRows }

\* What was in audit_settings.csv before the run.
StaleRows == << <<"stale">> >>

-----------------------------------------------------------------------------
(* get_mailbox_audit_settings                                              *)

\* await client.get(...): the exception the remote outcome raises, or the response.
ClientGet(o) == IF "exc" \in DOMAIN o THEN Raise(o.exc) ELSE Return(o)

\* result.json(): decodes the body whatever the status; raises on text that is no JSON.
ResponseJson(resp) ==
    IF "json" \in DOMAIN resp.body THEN Return(resp.body.json)
    ELSE Raise("JSONDecodeError")

\* settings.get(key): only a dict has .get.
SettingsGet(settings, key) ==
    IF "dict" \in DOMAIN settings THEN Return(DictGet(settings.dict, key))
    ELSE Raise("AttributeError")

\* The path of the request, f"/users/{user_principal_name}/mailboxSettings".
RequestPath(user_principal_name) ==
    "/users/" \o PyStr(user_principal_name) \o "/mailboxSettings"

\* The return statement with the two settings in each other's place.
SettingsRecordSwapped(user_principal_name, auditEnabled, auditLogAgeLimit) ==
    PyDict("Mailbox" :> user_principal_name
           @@ "AuditEnabled" :> auditLogAgeLimit
           @@ "AuditLogAgeLimit" :> auditEnabled)

\* The dict built by the return statement.
SettingsRecord(user_principal_name, auditEnabled, auditLogAgeLimit) ==
    PyDict("Mailbox" :> user_principal_name
           @@ "AuditEnabled" :> auditEnabled
           @@ "AuditLogAgeLimit" :> auditLogAgeLimit)

\* The body of the try statement, from the await to the return.
TryBody(user_principal_name, o) ==
    LET result == ClientGet(o) IN
    IF Raised(result) THEN result
    ELSE LET settings == ResponseJson(result.ret) IN
         IF Raised(settings) THEN settings
         ELSE LET ae == SettingsGet(settings.ret, "auditEnabled")
                  al == SettingsGet(settings.ret, "auditLogAgeLimit")
              IN  IF Raised(ae) THEN ae
                  ELSE IF Raised(al) THEN al
                  ELSE Return(SettingsRecord(user_principal_name, ae.ret, al.ret))

\* A handler that names one exception class only.
ExceptConnectionErrorOnly(e) == e = "ConnectionError"

\* `except Exception`: every exception of the try body is an Exception.
ExceptException(e) == TRUE

\* The line the handler prints.
ErrorLine(user_principal_name, e) ==
    "Error getting settings for " \o PyStr(user_principal_name) \o ": " \o e

\* The coroutine from its resumption to its end: what it returns or raises.
get_mailbox_audit_settings(user_principal_name, o) ==
    LET t == TryBody(user_principal_name, o) IN
    IF Raised(t) /\ ExceptException(t.raise) THEN Return(PyNone) ELSE t

\* What the coroutine prints.
Printed(user_principal_name, o) ==
    LET t == TryBody(user_principal_name, o) IN
    IF Raised(t) /\ ExceptException(t.raise)
    THEN << ErrorLine(user_principal_name, t.raise) >>
    ELSE << >>

-----------------------------------------------------------------------------
(* main                                                                    *)

\* The list comprehension without the next(reader) before it.
ReadMailboxesNoSkip(file) == [i \in 1..Len(file) |-> PyList(file[i])]

\* next(reader) and the list comprehension: every row after the first.
ReadMailboxes(file) == [i \in 1..(Len(file) - 1) |-> PyList(file[i + 1])]

\* Awaiting each coroutine in turn: a task starts when the earlier ones are done.
CanStartSequential(ts, i) == \A j \in 1..(i - 1) : ts[j] = "done"

\* A task may take its first step when the tasks created before it have taken theirs
\* (the event loop runs ready callbacks first in, first out); nothing waits for a response.
CanStart(ts, i) == \A j \in 1..(i - 1) : ts[j] # "scheduled"

\* Waiting for the first child only (asyncio.wait with FIRST_COMPLETED).
GatherReadyFirstCompleted(ts) == ts = << >> \/ \E i \in DOMAIN ts : ts[i] = "done"

\* gather's future completes when every child is done.
GatherReady(ts) == \A i \in DOMAIN ts : ts[i] = "done"

\* The results in the order the children finished (asyncio.as_completed).
GatherResultsAsCompleted(res, order) == [k \in 1..Len(order) |-> res[order[k]]]

\* gather's result list: the children's results in the order of the arguments.
GatherResults(res, order) == res

Fieldnames == << "Mailbox", "AuditEnabled", "AuditLogAgeLimit" >>

\* csv's writer: None is written as the empty string, anything else through str().
CsvCell(v) == IF IsNone(v) THEN "" ELSE PyStr(v)

\* DictWriter.writerow: the cells of the fieldnames, in their order.
DictToRow(d) == [k \in 1..Len(Fieldnames) |-> CsvCell(DictGet(d.dict, Fieldnames[k]))]

\* A filter that also wants every value of the record to be true.
KeepResultAllValues(result) ==
    /\ Truthy(result)
    /\ \A k \in DOMAIN result.dict : Truthy(result.dict[k])

\* The generator `result for result in results if result`.
KeepResult(result) == Truthy(result)

Kept(rs) == SelectSeq(rs, KeepResult)

\* writer.writerows over the generator.
WrittenRows(rs) == [k \in 1..Len(Kept(rs)) |-> DictToRow(Kept(rs)[k])]

-----------------------------------------------------------------------------
VARIABLES
    inputFile,   \* mailboxes.csv as csv.reader yields it: a sequence of rows
    remote,      \* remote[i]: what the service does with the request of task i
    pc,          \* pc[r]: where main of run r is
    mailboxes,   \* mailboxes[r]: the list built at line 42
    taskState,   \* taskState[r][i]: "scheduled", "awaiting" or "done"
    taskResult,  \* taskResult[r][i]: what task i returned (None until it is done)
    completed,   \* completed[r]: the tasks in the order they finished
    requests,    \* requests[r]: the paths of the GET requests, in the order issued
    results,     \* results[r]: the list gather returned
    stdout,      \* stdout[r]: the lines printed
    outFile      \* outFile[r]: audit_settings.csv, [opened, rows]

vars == << inputFile, remote, pc, mailboxes, taskState, taskResult, completed,
           requests, results, stdout, outFile >>

NData == Len(inputFile) - 1

Init ==
    /\ inputFile \in InputFiles
    /\ remote \in [1..NData -> Outcomes]
    /\ pc = [r \in Runs |-> "start"]
    /\ mailboxes = [r \in Runs |-> << >>]
    /\ taskState = [r \in Runs |-> << >>]
    /\ taskResult = [r \in Runs |-> << >>]
    /\ completed = [r \in Runs |-> << >>]
    /\ requests = [r \in Runs |-> << >>]
    /\ results = [r \in Runs |-> << >>]
    /\ stdout = [r \in Runs |-> << >>]
    /\ outFile = [r \in Runs |-> [opened |-> FALSE, rows |-> StaleRows]]

\* Lines 39-42: open the input, skip the header, keep the other rows.
ReadInput(r) ==
    /\ pc[r] = "start"
    /\ mailboxes' = [mailboxes EXCEPT ![r] = ReadMailboxes(inputFile)]
    /\ pc' = [pc EXCEPT ![r] = "loaded"]
    /\ UNCHANGED << inputFile, remote, taskState, taskResult, completed, requests,
                    results, stdout, outFile >>

\* Lines 44-45: one coroutine per mailbox, all handed to gather; main suspends.
CreateTasks(r) ==
    /\ pc[r] = "loaded"
    /\ taskState' = [taskState EXCEPT ![r] = [i \in DOMAIN mailboxes[r] |-> "scheduled"]]
    /\ taskResult' = [taskResult EXCEPT ![r] = [i \in DOMAIN mailboxes[r] |-> PyNone]]
    /\ pc' = [pc EXCEPT ![r] = "gathering"]
    /\ UNCHANGED << inputFile, remote, mailboxes, completed, requests, results,
                    stdout, outFile >>

\* Lines 23-25: a task runs up to its await: the GET request is issued.
TaskStart(r, i) ==
    /\ pc[r] = "gathering"
    /\ i \in DOMAIN taskState[r]
    /\ taskState[r][i] = "scheduled"
    /\ CanStart(taskState[r], i)
    /\ taskState' = [taskState EXCEPT ![r][i] = "awaiting"]
    /\ requests' = [requests EXCEPT ![r] = Append(@, RequestPath(mailboxes[r][i]))]
    /\ UNCHANGED << inputFile, remote, pc, mailboxes, taskResult, completed, results,
                    stdout, outFile >>

\* Lines 24-34: the response or the exception arrives and the task runs to its end.
\* An exception that leaves the coroutine is raised by gather into main, which ends.
TaskResume(r, i) ==
    /\ pc[r] = "gathering"
    /\ i \in DOMAIN taskState[r]
    /\ taskState[r][i] = "awaiting"
    /\ LET out == get_mailbox_audit_settings(mailboxes[r][i], remote[i]) IN
       /\ taskState' = [taskState EXCEPT ![r][i] = "done"]
       /\ completed' = [completed EXCEPT ![r] = Append(@, i)]
       /\ stdout' = [stdout EXCEPT ![r] = @ \o Printed(mailboxes[r][i], remote[i])]
       /\ IF Raised(out)
          THEN /\ pc' = [pc EXCEPT ![r] = "crashed"]
               /\ UNCHANGED taskResult
          ELSE /\ taskResult' = [taskResult EXCEPT ![r][i] = out.ret]
               /\ UNCHANGED pc
    /\ UNCHANGED << inputFile, remote, mailboxes, requests, results, outFile >>

\* Line 45: gather completes and main resumes with the list of results.
GatherReturn(r) ==
    /\ pc[r] = "gathering"
    /\ GatherReady(taskState[r])
    /\ results' = [results EXCEPT ![r] = GatherResults(taskResult[r], completed[r])]
    /\ pc' = [pc EXCEPT ![r] = "gathered"]
    /\ UNCHANGED << inputFile, remote, mailboxes, taskState, taskResult, completed,
                    requests, stdout, outFile >>

\* Line 47: open(output_csv, "w") truncates the file.
OpenOutput(r) ==
    /\ pc[r] = "gathered"
    /\ outFile' = [outFile EXCEPT ![r] = [opened |-> TRUE, rows |-> << >>]]
    /\ pc' = [pc EXCEPT ![r] = "opened"]
    /\ UNCHANGED << inputFile, remote, mailboxes, taskState, taskResult, completed,
                    requests, results, stdout >>

\* Lines 48-50: writer.writeheader().
WriteHeader(r) ==
    /\ pc[r] = "opened"
    /\ outFile' = [outFile EXCEPT ![r].rows = Append(@, Fieldnames)]
    /\ pc' = [pc EXCEPT ![r] = "headed"]
    /\ UNCHANGED << inputFile, remote, mailboxes, taskState, taskResult, completed,
                    requests, results, stdout >>

\* Line 52: writer.writerows(...), then the with block closes the file.
WriteRows(r) ==
    /\ pc[r] = "headed"
    /\ outFile' = [outFile EXCEPT ![r].rows = @ \o WrittenRows(results[r])]
    /\ pc' = [pc EXCEPT ![r] = "done"]
    /\ UNCHANGED << inputFile, remote, mailboxes, taskState, taskResult, completed,
                    requests, results, stdout >>

Step(r) ==
    \/ ReadInput(r)
    \/ CreateTasks(r)
    \/ \E i \in DOMAIN taskState[r] : TaskStart(r, i)
    \/ \E i \in DOMAIN taskState[r] : TaskResume(r, i)
    \/ GatherReturn(r)
    \/ OpenOutput(r)
    \/ WriteHeader(r)
    \/ WriteRows(r)

\* One run of the program.
Next == Step(1)

Spec == Init /\ [][Next]_vars

-----------------------------------------------------------------------------
(* Two runs of the program on the same input file and the same remote      *)
(* outcomes, each scheduled on its own.                                    *)

TwoRunRows == { <<"alice@x.com">>, <<"bob@x.com">> }

TwoRunOutcomes ==
    { NetworkError,
      Response(200, JsonBody(FullSettings)),
      Response(200, JsonBody(EmptySettings)),
      Response(404, JsonBody(ErrorObject)) }

InitTwoRuns ==
    /\ Init
    /\ \A i \in 1..NData : inputFile[i + 1] \in TwoRunRows /\ remote[i] \in TwoRunOutcomes

NextTwoRuns == \E r \in Runs : Step(r)

SpecTwoRuns == InitTwoRuns /\ [][NextTwoRuns]_vars

-----------------------------------------------------------------------------
(* Properties                                                              *)

\* The data rows of the output file of run r: what follows the header row.
DataRows(r) == Tail(outFile[r].rows)

Range(q) == { q[k] : k \in DOMAIN q }

\* How many times row v occurs in q.
Count(q, v) == Cardinality({ k \in DOMAIN q : q[k] = v })

Is2xx(status) == status \in 200..299

\* The try body of task i's fetch raises: at the await, in json() or in .get().
FetchRaises(i) == Raised(TryBody(PyList(inputFile[i + 1]), remote[i]))

\* The failures the specification lists: an exception out of the request (network,
\* authentication), a response that is not 2xx, a body that is no JSON.
ListedFailure(o) ==
    \/ "exc" \in DOMAIN o
    \/ ~Is2xx(o.status)
    \/ "json" \notin DOMAIN o.body

\* Success as the specification defines it: 2xx with a body that decodes to an object.
SpecSuccess(o) ==
    /\ "exc" \notin DOMAIN o
    /\ Is2xx(o.status)
    /\ "json" \in DOMAIN o.body
    /\ "dict" \in DOMAIN o.body.json

\* A field of the JSON object of response o, None when it is missing.
ResponseField(o, key) == DictGet(o.body.json.dict, key)

\* The cell a value of the response is written as.
Cell(v) ==
    IF v = PyNone THEN ""
    ELSE IF v = PyBool(TRUE) THEN "True"
    ELSE IF v = PyBool(FALSE) THEN "False"
    ELSE v.str

\* The entries main received a record for, and the row main writes for entry i: the
\* input row as Python prints a list, then the two settings of entry i's own response.
Answered == { i \in 1..NData : ~FetchRaises(i) }

RowOf(i) ==
    << "[" \o JoinRepr(inputFile[i + 1]) \o "]",
       Cell(ResponseField(remote[i], "auditEnabled")),
       Cell(ResponseField(remote[i], "auditLogAgeLimit")) >>

\* The k-th smallest element of a set of numbers.
RECURSIVE Nth(_, _)
Nth(S, k) ==
    LET m == CHOOSE x \in S : \A y \in S : x <= y IN
    IF k = 1 THEN m ELSE Nth(S \ {m}, k - 1)

\* C1: a fetch that raises (at the await, while decoding, while reading the fields)
\* returns None and raises nothing, whatever the other fetches do and in whatever
\* order they finish; main is never ended by an exception of a fetch, and until the
\* output file is written the program always has a next step (gather completes once
\* every fetch has settled, then main writes the file).
PartialFailureContained ==
    /\ pc[1] # "crashed"
    /\ \A i \in DOMAIN taskState[1] :
          (taskState[1][i] = "done" /\ FetchRaises(i)) => IsNone(taskResult[1][i])
    /\ (pc[1] = "gathering" /\ \A i \in DOMAIN taskState[1] : taskState[1][i] = "done")
          => ENABLED GatherReturn(1)
    /\ pc[1] # "done" => ENABLED Next

\* C1 witness: both fetches raise, the second finished first, and the file is written.
FailuresContainedAndWritten ==
    /\ pc[1] = "done"
    /\ NData = 2
    /\ completed[1] = << 2, 1 >>
    /\ remote[1] = Response(200, NotJsonBody)
    /\ remote[2] = NetworkError
    /\ outFile[1].rows = << Fieldnames >>

\* C2: when the run is over, every entry whose fetch failed in a listed way (network
\* error, non-2xx response, undecodable body, authentication failure) has the result
\* None, and the output holds no row for it: no more data rows than entries that did
\* not fail.
ListedFailuresYieldNoRow ==
    pc[1] = "done" =>
        /\ \A i \in 1..NData : ListedFailure(remote[i]) => IsNone(results[1][i])
        /\ Len(DataRows(1)) <= Cardinality({ i \in 1..NData : ~ListedFailure(remote[i]) })

\* The row the specification expects for entry i: the identifier of the first column,
\* then the two settings.
ClaimedRow(i) ==
    << inputFile[i + 1][1],
       Cell(ResponseField(remote[i], "auditEnabled")),
       Cell(ResponseField(remote[i], "auditLogAgeLimit")) >>

\* C3: when the run is over, the output holds exactly one row for every entry whose
\* fetch succeeded (its mailbox and the two settings of its own response), and as
\* many data rows as there are successful fetches.
SuccessfulFetchesWrittenOnce ==
    pc[1] = "done" =>
        LET succ == { i \in 1..NData : SpecSuccess(remote[i]) } IN
        /\ Len(DataRows(1)) = Cardinality(succ)
        /\ \A i \in succ :
              Count(DataRows(1), ClaimedRow(i))
                 = Cardinality({ j \in succ : ClaimedRow(j) = ClaimedRow(i) })

\* C4: when the run is over, whatever order the fetches finished in, the data rows
\* are the rows of the entries main received a record for, in the order of the input
\* rows; the entries whose fetch returned None are skipped in place.
OutputInInputOrder ==
    pc[1] = "done" =>
        /\ Len(DataRows(1)) = Cardinality(Answered)
        /\ \A k \in 1..Len(DataRows(1)) : DataRows(1)[k] = RowOf(Nth(Answered, k))

\* C4 witness: the second fetch finished first, both returned a record with different
\* settings, and the file is written.
WrittenAfterReversedCompletion ==
    /\ pc[1] = "done"
    /\ NData = 2
    /\ completed[1] = << 2, 1 >>
    /\ remote[1] = Response(200, JsonBody(FullSettings))
    /\ remote[2] = Response(200, JsonBody(DisabledSettings))
    /\ Len(DataRows(1)) = 2

\* C5: the output file is not opened, truncated or written while a fetch is pending:
\* whenever it is open or no longer holds what it held before the run, every task
\* launched for the input has settled.
FanInBarrier ==
    (outFile[1].opened \/ outFile[1].rows # StaleRows
        \/ pc[1] \in { "gathered", "opened", "headed", "done" })
    => /\ Len(taskState[1]) = NData
       /\ \A i \in DOMAIN taskState[1] : taskState[1][i] = "done"
       /\ Len(completed[1]) = NData

\* C5 witness: the file has just been opened, after two fetches that finished in
\* reverse order.
OpenedAfterAllSettled ==
    /\ pc[1] = "opened"
    /\ outFile[1].rows = << >>
    /\ NData = 2
    /\ completed[1] = << 2, 1 >>

\* C6: the k-th request issued is the request for the k-th data row, so no request is
\* ever issued for the header row and none is repeated; as many tasks are launched as
\* there are data rows, and once gather has returned exactly one request per data row
\* has been issued (duplicates of a row each get their own).
OneFetchPerDataRow ==
    /\ Len(requests[1]) <= NData
    /\ \A k \in DOMAIN requests[1] :
          requests[1][k] = "/users/[" \o JoinRepr(inputFile[k + 1]) \o "]/mailboxSettings"
    /\ "/users/[" \o JoinRepr(inputFile[1]) \o "]/mailboxSettings" \notin Range(requests[1])
    /\ pc[1] \notin { "start", "loaded" } => Len(taskState[1]) = NData
    /\ pc[1] \in { "gathered", "opened", "headed", "done" } => Len(requests[1]) = NData

\* C6 witness: the run is over for an input with the same row twice, the first of
\* which failed (and was not tried again).
DuplicatesFetchedOnceEach ==
    /\ pc[1] = "done"
    /\ NData = 2
    /\ inputFile[2] = inputFile[3]
    /\ remote[1] = NetworkError
    /\ Len(requests[1]) = 2

\* C7: two runs on the same input rows and the same remote outcomes end with the
\* same output file, however each of them was scheduled.
SameOutputInBothRuns ==
    (pc[1] = "done" /\ pc[2] = "done") => outFile[1] = outFile[2]

\* C7 witness: both runs are over, their fetches finished in different orders, and
\* one entry was answered and the other was not.
BothRunsDoneDifferentOrders ==
    /\ pc[1] = "done"
    /\ pc[2] = "done"
    /\ NData = 2
    /\ completed[1] = << 1, 2 >>
    /\ completed[2] = << 2, 1 >>
    /\ remote[1] = Response(200, JsonBody(FullSettings))
    /\ remote[2] = Response(200, JsonBody(EmptySettings))

\* C8: the Mailbox column of every data row is the identifier of the first column of
\* an input row, and for the input rows alice@x.com and bob@x.com, where alice's
\* fetch returns {auditEnabled: true, auditLogAgeLimit: "90"} and bob's raises a 404,
\* the output is the header followed by the one row alice@x.com,True,90.
MailboxColumnIsIdentifier ==
    pc[1] = "done" =>
        /\ \A k \in DOMAIN DataRows(1) :
              DataRows(1)[k][1] \in { inputFile[i + 1][1] : i \in 1..NData }
        /\ ( /\ inputFile = << <<"Mailbox">>, <<"alice@x.com">>, <<"bob@x.com">> >>
             /\ remote[1] = Response(200, JsonBody(FullSettings))
             /\ remote[2] = NotFoundRaised )
           => outFile[1].rows = << Fieldnames, << "alice@x.com", "True", "90" >> >>

\* Some task of run 1 takes its first step.
StartSome == \E i \in DOMAIN taskState[1] : TaskStart(1, i)

\* C9: while gather is pending, a task that has not issued its request can always be
\* started next, whether or not the earlier fetches have settled: no fetch waits for
\* another one's response.
FanOutDoesNotWait ==
    (pc[1] = "gathering" /\ \E i \in DOMAIN taskState[1] : taskState[1][i] = "scheduled")
    => ENABLED StartSome

\* C9 witness: every request of an input of MaxRows rows is in flight at once.
AllRequestsInFlight ==
    /\ pc[1] = "gathering"
    /\ NData = MaxRows
    /\ Len(requests[1]) = MaxRows
    /\ \A i \in DOMAIN taskState[1] : taskState[1][i] = "awaiting"

\* C10: a fetch whose response is an object returns a record whose two settings are
\* those of the response, None where the response has none; the filter drops exactly
\* the None results: every record is written, whatever its values.
FilterDropsExactlyNone ==
    /\ pc[1] \in { "gathered", "opened", "headed", "done" } =>
          \A i \in 1..NData :
              SpecSuccess(remote[i]) =>
                  /\ ~IsNone(results[1][i])
                  /\ results[1][i].dict["AuditEnabled"]
                        = ResponseField(remote[i], "auditEnabled")
                  /\ results[1][i].dict["AuditLogAgeLimit"]
                        = ResponseField(remote[i], "auditLogAgeLimit")
    /\ pc[1] = "done" =>
          /\ Len(DataRows(1))
                = Cardinality({ i \in DOMAIN results[1] : ~IsNone(results[1][i]) })
          /\ \A i \in 1..NData : SpecSuccess(remote[i]) => RowOf(i) \in Range(DataRows(1))

\* C10 witness: the run is over; one response had no setting at all, the other had
\* auditEnabled false and no age limit, and both rows were written.
RecordsWithNullFieldsWritten ==
    /\ pc[1] = "done"
    /\ NData = 2
    /\ remote[1] = Response(200, JsonBody(EmptySettings))
    /\ remote[2] = Response(200, JsonBody(DisabledSettings))
    /\ Len(DataRows(1)) = 2
    /\ DataRows(1)[1][2] = ""
    /\ DataRows(1)[2][2] = "False"

====
